---- MODULE Spec2Model ----
(***************************************************************************)
(* Model of pgs.SegmentReader (src/pgs/reader.go): the decoder of a        *)
(* Presentation Graphic Stream.  One ReadSegment call reads a 13-byte      *)
(* header from an io.Reader, dispatches on the segment type and parses the *)
(* body.  The byte source is a finite sequence of bytes and a read         *)
(* position; every read of the source is one action.                       *)
(***************************************************************************)
EXTENDS Integers, Sequences, FiniteSets, TLC

(***************************************************************************)
(* Bounds of the model.                                                    *)
(***************************************************************************)
MaxObjects == 2
MaxWindows == 2
MaxEntries == 3
MaxPayload == 2
MaxCalls == 2

(***************************************************************************)
(* Constants of the format.  reader.go names them; the declarations live   *)
(* beside the struct types, outside reader.go.                             *)
(***************************************************************************)
magicNumber == 20551
pdsType == 20
odsType == 21
pcsType == 22
wdsType == 23
endType == 128
Normal == 0
AcquisitionPoint == 64
EpochStart == 128
pufTrue == 128
croppedForce == 64
firstInSequence == 128
lastInSequence == 64
headerSize == 13
pcsSize == 11
pcsCompositionObjectSize == 8
cropSize == 8
wdsSize == 1
windowSize == 9
pdsSize == 2
paletteEntrySize == 5
odsSize == 11

(***************************************************************************)
(* Integers as Go sees them.                                               *)
(***************************************************************************)
Min(a, b) == IF a < b THEN a ELSE b

RECURSIVE BitAnd(_, _)
BitAnd(a, b) ==
    IF a = 0 \/ b = 0 THEN 0
    ELSE (a % 2) * (b % 2) + 2 * BitAnd(a \div 2, b \div 2)

\* Go's a &^ b (bit clear).
AndNot(a, b) == a - BitAnd(a, b)

\* Go's a | b.
BitOr(a, b) == a + b - BitAnd(a, b)

\* uint16 arithmetic wraps.
Uint16(x) == x % 65536

\* encoding/binary big-endian decoding of a byte sequence.
RECURSIVE BigEndian(_)
BigEndian(bs) ==
    IF bs = <<>> THEN 0
    ELSE BigEndian(SubSeq(bs, 1, Len(bs) - 1)) * 256 + bs[Len(bs)]

Slice(s, from, n) == SubSeq(s, from + 1, from + n)

(***************************************************************************)
(* Errors.  An error is the chain of its messages, outermost first: the    *)
(* format string and the arguments of each fmt.Errorf, "%w" wrapping the   *)
(* chain that follows.  nil is the empty chain.                            *)
(***************************************************************************)
nil == <<>>
ioEOF == << [fmt |-> "EOF", args |-> <<>>] >>
ioErrUnexpectedEOF == << [fmt |-> "unexpected EOF", args |-> <<>>] >>
Errorf(fmt, args, wrapped) == << [fmt |-> fmt, args |-> args] >> \o wrapped

\* No *Segment, no payload.
NoValue == [nil |-> TRUE]

(***************************************************************************)
(* binary.Read(sr.r, binary.BigEndian, &v) for a v of n bytes is           *)
(* io.ReadFull: all n bytes, or io.EOF when the source gave none, or       *)
(* io.ErrUnexpectedEOF when it gave some and ended.  However the source    *)
(* splits the bytes over its reads, the outcome is the same.               *)
(***************************************************************************)
binaryRead(src, at, n) ==
    LET avail == Len(src) - at IN
    IF avail >= n THEN [err |-> nil, n |-> n, bytes |-> Slice(src, at, n)]
    ELSE IF avail = 0 THEN [err |-> ioEOF, n |-> 0, bytes |-> <<>>]
    ELSE [err |-> ioErrUnexpectedEOF, n |-> avail, bytes |-> Slice(src, at, avail)]

(***************************************************************************)
(* The wire structs, big-endian, fields in declaration order.              *)
(***************************************************************************)
decodeHeader(bs) ==
    [MagicNumber      |-> BigEndian(Slice(bs, 0, 2)),
     PresentationTime |-> Slice(bs, 2, 4),
     DecodingTime     |-> Slice(bs, 6, 4),
     SegmentType      |-> bs[11],
     SegmentSize      |-> BigEndian(Slice(bs, 11, 2))]

decodePcs(bs) ==
    [Width             |-> BigEndian(Slice(bs, 0, 2)),
     Height            |-> BigEndian(Slice(bs, 2, 2)),
     FrameRate         |-> bs[5],
     CompositionNumber |-> BigEndian(Slice(bs, 5, 2)),
     CompositionState  |-> bs[8],
     PaletteUpdateFlag |-> bs[9],
     PaletteID         |-> bs[10],
     ObjectCount       |-> bs[11]]

decodePcsCompositionObject(bs) ==
    [ObjectID      |-> BigEndian(Slice(bs, 0, 2)),
     WindowID      |-> bs[3],
     ObjectCropped |-> bs[4],
     X             |-> BigEndian(Slice(bs, 4, 2)),
     Y             |-> BigEndian(Slice(bs, 6, 2))]

decodeCompositionObjectCrop(bs) ==
    [nil    |-> FALSE,
     X      |-> BigEndian(Slice(bs, 0, 2)),
     Y      |-> BigEndian(Slice(bs, 2, 2)),
     Width  |-> BigEndian(Slice(bs, 4, 2)),
     Height |-> BigEndian(Slice(bs, 6, 2))]

decodeWds(bs) == [WindowCount |-> bs[1]]

decodeWindow(bs) ==
    [ID     |-> bs[1],
     X      |-> BigEndian(Slice(bs, 1, 2)),
     Y      |-> BigEndian(Slice(bs, 3, 2)),
     Width  |-> BigEndian(Slice(bs, 5, 2)),
     Height |-> BigEndian(Slice(bs, 7, 2))]

decodePds(bs) == [PaletteID |-> bs[1], PaletteVersion |-> bs[2]]

decodePaletteEntry(bs) ==
    [ID |-> bs[1], Y |-> bs[2], Cr |-> bs[3], Cb |-> bs[4], Alpha |-> bs[5]]

decodeOds(bs) ==
    [ObjectID         |-> BigEndian(Slice(bs, 0, 2)),
     ObjectVersion    |-> bs[3],
     SequenceFlag     |-> bs[4],
     ObjectDataLength |-> BigEndian(Slice(bs, 4, 3)),
     Width            |-> BigEndian(Slice(bs, 7, 2)),
     Height           |-> BigEndian(Slice(bs, 9, 2))]

\* A 90 kHz timestamp is kept as its four big-endian bytes: a uint32 does
\* not fit the checker's integers.  Its quotient and remainder by 90000:
RECURSIVE ticksDivMod(_)
ticksDivMod(bs) ==
    IF bs = <<>> THEN [q |-> 0, r |-> 0]
    ELSE LET p == ticksDivMod(SubSeq(bs, 1, Len(bs) - 1))
             v == p.r * 256 + bs[Len(bs)]
         IN  [q |-> p.q * 256 + v \div 90000, r |-> v % 90000]

\* timestamp.Duration(): ticks / 90000 seconds, as whole seconds and the
\* nanoseconds of the rest.
Duration(bs) ==
    LET d == ticksDivMod(bs)
    IN  [Seconds     |-> d.q,
         Nanoseconds |-> (d.r \div 9) * 100000 + ((d.r % 9) * 100000) \div 9]

(***************************************************************************)
(* sr.r.Read(buf) with len(buf) = b > 0, as io.Reader allows: at the end   *)
(* of the source 0 bytes and io.EOF; otherwise between 1 and b of the      *)
(* bytes left, and a reader that hands out its last bytes may report       *)
(* io.EOF with them instead of on the next call.  (A read of 0 bytes and a *)
(* nil error changes nothing and is a stuttering step.)                    *)
(***************************************************************************)
Read(src, at, b) ==
    LET avail == Len(src) - at IN
    IF avail = 0 THEN { [n |-> 0, err |-> ioEOF, bytes |-> <<>>] }
    ELSE { [n |-> k, err |-> nil, bytes |-> Slice(src, at, k)] :
               k \in 1..Min(b, avail) }
         \cup
         { [n |-> k, err |-> ioEOF, bytes |-> Slice(src, at, k)] :
               k \in {j \in 1..Min(b, avail) : j = avail} }

(***************************************************************************)
(* The checks of reader.go, one operator each.                             *)
(***************************************************************************)
\* Faulty variant: the magic number is not checked.
magicOK_anyMagic(hd) == TRUE

\* reader.go:25
magicOK(hd) == hd.MagicNumber = magicNumber

\* reader.go:28-32
knownType(t) == t \in {pcsType, wdsType, pdsType, odsType, endType}

\* reader.go:75-79
compositionStateOK(st) == st \in {Normal, AcquisitionPoint, EpochStart}

\* reader.go:80
paletteUpdateFlagOK(f) == AndNot(f, pufTrue) = 0

\* Faulty variant: the crop flag is not checked.
objectCroppedOK_anyFlag(f) == TRUE

\* reader.go:96
objectCroppedOK(f) == AndNot(f, croppedForce) = 0

\* reader.go:100
isCropped(f) == f = croppedForce

\* Faulty variant: a declared size larger than the size read passes.
pcsSizeOK_atMost(sz, segmentSize) == sz <= segmentSize

\* reader.go:110
pcsSizeOK(sz, segmentSize) == sz = segmentSize

\* Faulty variant: the count byte is left out of the size.
wdsSizeOK_noCountByte(segmentSize, windowCount) ==
    segmentSize = Uint16(windowCount * windowSize)

\* reader.go:131
wdsSizeOK(segmentSize, windowCount) ==
    segmentSize = Uint16(Uint16(windowCount * windowSize) + wdsSize)

\* Faulty variant: the remainder is off by one.
pdsSizeOK_offByOne(segmentSize) == segmentSize % paletteEntrySize \in {pdsSize - 1, pdsSize}

\* reader.go:145
pdsSizeOK(segmentSize) == segmentSize % paletteEntrySize = pdsSize

\* reader.go:152
paletteEntryCount(segmentSize) ==
    Uint16(segmentSize - pdsSize) \div paletteEntrySize

\* Faulty variant: the set of seen IDs is not consulted.
idReused_never(seen, id) == FALSE

\* reader.go:160
idReused(seen, id) == id \in seen

\* reader.go:178
sequenceFlagOK(f) == AndNot(f, BitOr(firstInSequence, lastInSequence)) = 0

\* Faulty variant: one byte too few is taken off.
objectDataLen_minus3(objectDataLength) == objectDataLength - 3

\* reader.go:181
objectDataLen(objectDataLength) == objectDataLength - 4

\* reader.go:19-24: the header's read error, bare when it is io.EOF.
headerError(e) == IF e = ioEOF THEN e ELSE Errorf("segment header: %w", <<>>, e)

(***************************************************************************)
(* The streams the source may hold.  Each is one segment (its fields drawn *)
(* from small sets, legal and illegal), followed by nothing or by one more *)
(* segment, or cut short at any byte.                                      *)
(***************************************************************************)
U16(x) == << x \div 256, x % 256 >>
U24(x) == << x \div 65536 >> \o U16(x % 65536)
U32(x) == U16(x \div 65536) \o U16(x % 65536)

RECURSIVE Concat(_)
Concat(ss) == IF ss = <<>> THEN <<>> ELSE Head(ss) \o Concat(Tail(ss))

segHeader(magic, type, size) ==
    U16(magic) \o U32(135000) \o U32(90001) \o << type >> \o U16(size)

compositionObjectBytes(k, flag) ==
    U16(k) \o << k, flag >> \o U16(100 * k) \o U16(200 * k)
    \o (IF flag = croppedForce
        THEN U16(1) \o U16(2) \o U16(30 + k) \o U16(40 + k)
        ELSE <<>>)

pcsBody(state, puf, flags) ==
    U16(1920) \o U16(1080) \o << 16 >> \o U16(7) \o << state, puf, 3, Len(flags) >>
    \o Concat([k \in 1..Len(flags) |-> compositionObjectBytes(k, flags[k])])

windowBytes(k) == << k >> \o U16(10 * k) \o U16(20 * k) \o U16(300 + k) \o U16(50)

wdsBody(count) == << count >> \o Concat([k \in 1..count |-> windowBytes(k)])

pdsBody(entryIDs) ==
    << 3, 1 >>
    \o Concat([k \in 1..Len(entryIDs) |-> << entryIDs[k], 16 + k, 128, 128, 255 >>])

odsBody(flag, length, payload) ==
    U16(9) \o << 1, flag >> \o U24(length) \o U16(64) \o U16(32) \o payload

payloadBytes(n) == [k \in 1..n |-> 160 + k]

SeqsUpTo(S, n) == UNION { [1..k -> S] : k \in 0..n }

CompositionStateBytes == {Normal, AcquisitionPoint, EpochStart, 1}
PaletteUpdateBytes == {0, pufTrue, pufTrue + 1}
ObjectCroppedBytes == {0, croppedForce, croppedForce + 1}
SequenceFlagBytes ==
    {0, lastInSequence, firstInSequence, firstInSequence + lastInSequence, 32}
EntryIDs == {5, 6}
MagicNumbers == {magicNumber, 18256, magicNumber + 1}
SegmentTypes == {pcsType, wdsType, pdsType, odsType, endType, 0, 24}
ObjectDataLengths == {0, 2, 3, 16777215} \cup { 4 + p : p \in 0..MaxPayload }

PcsSegments ==
    { segHeader(magicNumber, pcsType, sz) \o pcsBody(st, pf, fl) :
        sz \in { pcsSize + 8 * j : j \in 0..(2 * MaxObjects) },
        st \in CompositionStateBytes, pf \in PaletteUpdateBytes,
        fl \in SeqsUpTo(ObjectCroppedBytes, MaxObjects) }

WdsSegments ==
    { segHeader(magicNumber, wdsType, sz) \o wdsBody(c) :
        sz \in { windowSize * j + 1 : j \in 0..MaxWindows } \cup {windowSize},
        c \in 0..MaxWindows }

PdsSegments ==
    { segHeader(magicNumber, pdsType, sz) \o pdsBody(es) :
        sz \in { pdsSize + paletteEntrySize * j : j \in 0..MaxEntries } \cup {0, 1, 6},
        es \in SeqsUpTo(EntryIDs, MaxEntries) }

odsPayload(length) == payloadBytes(IF length >= 4 THEN Min(length - 4, MaxPayload) ELSE 0)

OdsSegments ==
    { segHeader(magicNumber, odsType, sz) \o odsBody(fl, length, odsPayload(length)) :
        fl \in SequenceFlagBytes,
        length \in ObjectDataLengths,
        sz \in {0} \cup { odsSize + q : q \in 0..MaxPayload } }

EndSegments == { segHeader(magicNumber, endType, sz) : sz \in {0, 5} }

\* Every magic number and type tag, over an otherwise valid palette body.
HeaderSegments ==
    { segHeader(m, t, 7) \o pdsBody(<< 5 >>) :
        m \in MagicNumbers, t \in SegmentTypes }

FirstSegments ==
    PcsSegments \cup WdsSegments \cup PdsSegments \cup OdsSegments
    \cup EndSegments \cup HeaderSegments

NextSegments ==
    { <<>>,
      segHeader(magicNumber, endType, 0),
      segHeader(magicNumber, pdsType, 7) \o pdsBody(<< 5 >>) }

FullStreams == { f \o t : f \in FirstSegments, t \in NextSegments }

Streams ==
    FullStreams
    \cup UNION { { SubSeq(f, 1, k) : k \in 0..Len(f) } : f \in FirstSegments }

(***************************************************************************)
(* State.  stream and pos are the byte source sr.r; the rest is one        *)
(* ReadSegment call: where it stands (pc), its locals and what it          *)
(* returned.  start is the source position at which the call began and     *)
(* calls the number of calls made.                                         *)
(***************************************************************************)
VARIABLES stream, pos, pc, calls, start, h, s,
          pcs, objects, size,
          wds, windows,
          pds, entries, ids,
          ods, data, dataLen,
          i, ret, err

pcsLocals == << pcs, objects, size >>
wdsLocals == << wds, windows >>
pdsLocals == << pds, entries, ids >>
odsLocals == << ods, data, dataLen >>
vars == << stream, pos, pc, calls, start, h, s, pcsLocals, wdsLocals,
           pdsLocals, odsLocals, i, ret, err >>

Zeros(n) == [k \in 1..n |-> 0]
zeroHeader == decodeHeader(Zeros(headerSize))
zeroPcs == decodePcs(Zeros(pcsSize))
zeroWds == decodeWds(Zeros(wdsSize))
zeroPds == decodePds(Zeros(pdsSize))
zeroOds == decodeOds(Zeros(odsSize))
zeroCompositionObject ==
    [ObjectID |-> 0, WindowID |-> 0, X |-> 0, Y |-> 0, Crop |-> NoValue]

zeroLocals ==
    /\ pcs = zeroPcs /\ objects = <<>> /\ size = 0
    /\ wds = zeroWds /\ windows = <<>>
    /\ pds = zeroPds /\ entries = <<>> /\ ids = {}
    /\ ods = zeroOds /\ data = <<>> /\ dataLen = 0
    /\ i = 0

\* NewSegmentReader(r): the reader holds the source, nothing is read yet.
Init ==
    /\ stream \in Streams
    /\ pos = 0
    /\ pc = "idle"
    /\ calls = 0
    /\ start = 0
    /\ h = zeroHeader
    /\ s = NoValue
    /\ zeroLocals
    /\ ret = NoValue
    /\ err = nil

(***************************************************************************)
(* Returning from ReadSegment.                                             *)
(***************************************************************************)
Return(v, e) == pc' = "return" /\ ret' = v /\ err' = e

\* reader.go:40-62: a body parser's error is wrapped, its value becomes s.Data.
returnBody(prefix, val, e) ==
    IF e # nil
    THEN Return(NoValue, Errorf(prefix, <<>>, e))
    ELSE Return([s EXCEPT !.Data = val], nil)

pcsPrefix == "presentation composition segment: %w"
wdsPrefix == "window definition segment: %w"
pdsPrefix == "palette definition segment: %w"
odsPrefix == "object definition segment: %w"

(***************************************************************************)
(* ReadSegment, reader.go:17-38 and 63-67: the header is read and checked  *)
(* and the call goes on in the parser of the segment type; an end segment  *)
(* has no body and is returned at once.  The caller calls again after a    *)
(* segment was returned.                                                   *)
(***************************************************************************)
ReadSegment ==
    /\ pc = "idle" \/ (pc = "return" /\ err = nil)
    /\ calls < MaxCalls
    /\ calls' = calls + 1
    /\ start' = pos
    /\ pcs' = zeroPcs /\ objects' = <<>> /\ size' = 0
    /\ wds' = zeroWds /\ windows' = <<>>
    /\ pds' = zeroPds /\ entries' = <<>> /\ ids' = {}
    /\ ods' = zeroOds /\ data' = <<>> /\ dataLen' = 0
    /\ i' = 0
    /\ UNCHANGED stream
    /\ LET r   == binaryRead(stream, pos, headerSize)
           hd  == decodeHeader(r.bytes)
           seg == [nil              |-> FALSE,
                   PresentationTime |-> Duration(hd.PresentationTime),
                   DecodingTime     |-> Duration(hd.DecodingTime),
                   Data             |-> NoValue]
       IN  /\ pos' = pos + r.n
           /\ IF r.err # nil
              THEN /\ h' = zeroHeader /\ s' = NoValue
                   /\ Return(NoValue, headerError(r.err))
              ELSE /\ h' = hd
                   /\ IF ~magicOK(hd)
                      THEN /\ s' = NoValue
                           /\ Return(NoValue,
                                     Errorf("magic number not \"PG\" 0x5047: %x",
                                            << hd.MagicNumber >>, nil))
                      ELSE IF ~knownType(hd.SegmentType)
                      THEN /\ s' = NoValue
                           /\ Return(NoValue,
                                     Errorf("unrecognized segment type: 0x%x",
                                            << hd.SegmentType >>, nil))
                      ELSE /\ s' = seg
                           /\ IF hd.SegmentType = endType
                              THEN Return(seg, nil)
                              ELSE /\ ret' = NoValue /\ err' = nil
                                   /\ pc' = CASE hd.SegmentType = pcsType ->
                                                     "readPresentationComposition"
                                              [] hd.SegmentType = wdsType -> "readWindows"
                                              [] hd.SegmentType = pdsType -> "readPalette"
                                              [] hd.SegmentType = odsType -> "readObject"

(***************************************************************************)
(* readPresentationComposition, reader.go:70-124.                          *)
(***************************************************************************)
\* reader.go:113-122
presentationComposition(p, objs) ==
    [nil               |-> FALSE,
     type              |-> "*PresentationComposition",
     Width             |-> p.Width,
     Height            |-> p.Height,
     FrameRate         |-> p.FrameRate,
     CompositionNumber |-> p.CompositionNumber,
     CompositionState  |-> p.CompositionState,
     PaletteUpdate     |-> BitAnd(p.PaletteUpdateFlag, pufTrue) # 0,
     PaletteID         |-> p.PaletteID,
     Objects           |-> objs]

\* reader.go:110-123: after the last object, the size read against the header's.
pcsFinish(p, objs, sz) ==
    IF ~pcsSizeOK(sz, h.SegmentSize)
    THEN returnBody(pcsPrefix, NoValue,
                    Errorf("read %d bytes, %d bytes declared in header",
                           << sz, h.SegmentSize >>, nil))
    ELSE returnBody(pcsPrefix, presentationComposition(p, objs), nil)

\* reader.go:70-84: the 11-byte composition header and its enumerated fields.
readPresentationComposition ==
    /\ pc = "readPresentationComposition"
    /\ LET r == binaryRead(stream, pos, pcsSize)
           p == decodePcs(r.bytes)
           e == IF r.err # nil THEN r.err
                ELSE IF ~compositionStateOK(p.CompositionState)
                THEN Errorf("unrecognized composition state: 0x%x",
                            << p.CompositionState >>, nil)
                ELSE IF ~paletteUpdateFlagOK(p.PaletteUpdateFlag)
                THEN Errorf("unrecognized palette update flag: 0x%x",
                            << p.PaletteUpdateFlag >>, nil)
                ELSE nil
           objs == [k \in 1..p.ObjectCount |-> zeroCompositionObject]
       IN  /\ pos' = pos + r.n
           /\ pcs' = IF r.err = nil THEN p ELSE pcs
           /\ IF e # nil
              THEN /\ UNCHANGED << objects, size, i >>
                   /\ returnBody(pcsPrefix, NoValue, e)
              ELSE /\ objects' = objs /\ size' = pcsSize /\ i' = 0
                   /\ IF p.ObjectCount = 0
                      THEN pcsFinish(p, objs, pcsSize)
                      ELSE pc' = "pcsObject" /\ UNCHANGED << ret, err >>
    /\ UNCHANGED << stream, calls, start, h, s, wdsLocals, pdsLocals, odsLocals >>

\* reader.go:85-109: one turn of the loop over the composition objects.
pcsObject ==
    /\ pc = "pcsObject"
    /\ LET count == pcs.ObjectCount
           r1    == binaryRead(stream, pos, pcsCompositionObjectSize)
           obj   == decodePcsCompositionObject(r1.bytes)
           co    == [ObjectID |-> obj.ObjectID, WindowID |-> obj.WindowID,
                     X |-> obj.X, Y |-> obj.Y, Crop |-> NoValue]
           r2    == binaryRead(stream, pos + r1.n, cropSize)
           crop  == decodeCompositionObjectCrop(r2.bytes)
       IN  IF r1.err # nil
           THEN /\ pos' = pos + r1.n
                /\ UNCHANGED << objects, size, i >>
                /\ returnBody(pcsPrefix, NoValue,
                              Errorf("composition object %d/%d: %w",
                                     << i + 1, count >>, r1.err))
           ELSE IF ~objectCroppedOK(obj.ObjectCropped)
           THEN /\ pos' = pos + r1.n
                /\ objects' = [objects EXCEPT ![i + 1] = co]
                /\ UNCHANGED << size, i >>
                /\ returnBody(pcsPrefix, NoValue,
                              Errorf("composition object %d/%d: unrecognized flag: 0x%x",
                                     << i + 1, count, obj.ObjectCropped >>, nil))
           ELSE IF isCropped(obj.ObjectCropped) /\ r2.err # nil
           THEN /\ pos' = pos + r1.n + r2.n
                /\ objects' = [objects EXCEPT ![i + 1] = co]
                /\ UNCHANGED << size, i >>
                /\ returnBody(pcsPrefix, NoValue, r2.err)
           ELSE LET cropped == isCropped(obj.ObjectCropped)
                    objs == [objects EXCEPT
                               ![i + 1] = IF cropped THEN [co EXCEPT !.Crop = crop] ELSE co]
                    sz   == size + pcsCompositionObjectSize
                                 + (IF cropped THEN cropSize ELSE 0)
                IN  /\ pos' = pos + r1.n + (IF cropped THEN r2.n ELSE 0)
                    /\ objects' = objs
                    /\ size' = sz
                    /\ i' = i + 1
                    /\ IF i + 1 = count
                       THEN pcsFinish(pcs, objs, sz)
                       ELSE UNCHANGED << pc, ret, err >>
    /\ UNCHANGED << stream, calls, start, h, s, pcs, wdsLocals, pdsLocals, odsLocals >>

(***************************************************************************)
(* readWindows, reader.go:126-142.                                         *)
(***************************************************************************)
windowsValue(ws) == [nil |-> FALSE, type |-> "[]Window", Windows |-> ws]

zeroWindow == decodeWindow(Zeros(windowSize))

\* reader.go:126-135: the window count, and the size it implies.
readWindows ==
    /\ pc = "readWindows"
    /\ LET r  == binaryRead(stream, pos, wdsSize)
           w  == decodeWds(r.bytes)
           e  == IF r.err # nil THEN r.err
                 ELSE IF ~wdsSizeOK(h.SegmentSize, w.WindowCount)
                 THEN Errorf("segment size %d indicates %d windows, but %d specified",
                             << h.SegmentSize,
                                Uint16(Uint16(w.WindowCount * windowSize) + wdsSize),
                                w.WindowCount >>, nil)
                 ELSE nil
           ws == [k \in 1..w.WindowCount |-> zeroWindow]
       IN  /\ pos' = pos + r.n
           /\ wds' = IF r.err = nil THEN w ELSE wds
           /\ IF e # nil
              THEN UNCHANGED << windows, i >> /\ returnBody(wdsPrefix, NoValue, e)
              ELSE /\ windows' = ws /\ i' = 0
                   /\ IF w.WindowCount = 0
                      THEN returnBody(wdsPrefix, windowsValue(ws), nil)
                      ELSE pc' = "wdsWindow" /\ UNCHANGED << ret, err >>
    /\ UNCHANGED << stream, calls, start, h, s, pcsLocals, pdsLocals, odsLocals >>

\* reader.go:136-141: one turn of the loop over the windows.
wdsWindow ==
    /\ pc = "wdsWindow"
    /\ LET r  == binaryRead(stream, pos, windowSize)
           ws == [windows EXCEPT ![i + 1] = decodeWindow(r.bytes)]
       IN  /\ pos' = pos + r.n
           /\ IF r.err # nil
              THEN UNCHANGED << windows, i >> /\ returnBody(wdsPrefix, NoValue, r.err)
              ELSE /\ windows' = ws /\ i' = i + 1
                   /\ IF i + 1 = wds.WindowCount
                      THEN returnBody(wdsPrefix, windowsValue(ws), nil)
                      ELSE UNCHANGED << pc, ret, err >>
    /\ UNCHANGED << stream, calls, start, h, s, wds, pcsLocals, pdsLocals, odsLocals >>

(***************************************************************************)
(* readPalette, reader.go:144-171.                                         *)
(***************************************************************************)
\* reader.go:165-169
palette(p, es) ==
    [nil     |-> FALSE,
     type    |-> "*Palette",
     ID      |-> p.PaletteID,
     Version |-> p.PaletteVersion,
     Entries |-> es]

zeroPaletteEntry == decodePaletteEntry(Zeros(paletteEntrySize))

\* reader.go:144-154: the size check, the palette header, the entry count.
readPalette ==
    /\ pc = "readPalette"
    /\ IF ~pdsSizeOK(h.SegmentSize)
       THEN /\ UNCHANGED << pos, pds, entries, ids, i >>
            /\ returnBody(pdsPrefix, NoValue,
                          Errorf("invalid segment size of %d bytes in header",
                                 << h.SegmentSize >>, nil))
       ELSE LET r  == binaryRead(stream, pos, pdsSize)
                n  == paletteEntryCount(h.SegmentSize)
                es == [k \in 1..n |-> zeroPaletteEntry]
            IN  /\ pos' = pos + r.n
                /\ IF r.err # nil
                   THEN /\ UNCHANGED << pds, entries, ids, i >>
                        /\ returnBody(pdsPrefix, NoValue, r.err)
                   ELSE /\ pds' = decodePds(r.bytes)
                        /\ entries' = es /\ ids' = {} /\ i' = 0
                        /\ IF n = 0
                           THEN returnBody(pdsPrefix, palette(decodePds(r.bytes), es), nil)
                           ELSE pc' = "pdsEntry" /\ UNCHANGED << ret, err >>
    /\ UNCHANGED << stream, calls, start, h, s, pcsLocals, wdsLocals, odsLocals >>

\* reader.go:155-164: one turn of the loop over the palette entries.
pdsEntry ==
    /\ pc = "pdsEntry"
    /\ LET n  == Len(entries)
           r  == binaryRead(stream, pos, paletteEntrySize)
           es == [entries EXCEPT ![i + 1] = decodePaletteEntry(r.bytes)]
           id == es[i + 1].ID
       IN  /\ pos' = pos + r.n
           /\ IF r.err # nil
              THEN /\ UNCHANGED << entries, ids, i >>
                   /\ returnBody(pdsPrefix, NoValue,
                                 Errorf("palette entry %d/%d: %w", << i, n >>, r.err))
              ELSE IF idReused(ids, id)
              THEN /\ entries' = es
                   /\ UNCHANGED << ids, i >>
                   /\ returnBody(pdsPrefix, NoValue,
                                 Errorf("palette entry %d/%d: ID %d reused",
                                        << i, n, id >>, nil))
              ELSE /\ entries' = es
                   /\ ids' = ids \cup {id}
                   /\ i' = i + 1
                   /\ IF i + 1 = n
                      THEN returnBody(pdsPrefix, palette(pds, es), nil)
                      ELSE UNCHANGED << pc, ret, err >>
    /\ UNCHANGED << stream, calls, start, h, s, pds, pcsLocals, wdsLocals, odsLocals >>

(***************************************************************************)
(* readObject, reader.go:173-204.  data holds the bytes read so far, the   *)
(* first n bytes of the buffer of dataLen bytes.                           *)
(***************************************************************************)
\* reader.go:194-202
object(o, d) ==
    [nil        |-> FALSE,
     type       |-> "*Object",
     ID         |-> o.ObjectID,
     Version    |-> o.ObjectVersion,
     First      |-> BitAnd(o.SequenceFlag, firstInSequence) # 0,
     Last       |-> BitAnd(o.SequenceFlag, lastInSequence) # 0,
     Width      |-> o.Width,
     Height     |-> o.Height,
     ObjectData |-> d]

\* reader.go:173-186: the object header, its flags and the payload length.
readObject ==
    /\ pc = "readObject"
    /\ LET r  == binaryRead(stream, pos, odsSize)
           o  == decodeOds(r.bytes)
           dl == objectDataLen(o.ObjectDataLength)
           e  == IF r.err # nil THEN r.err
                 ELSE IF ~sequenceFlagOK(o.SequenceFlag)
                 THEN Errorf("unrecognized flag: 0x%x", << o.SequenceFlag >>, nil)
                 ELSE IF dl < 0
                 THEN Errorf("data length excludes width and height", <<>>, nil)
                 ELSE nil
       IN  /\ pos' = pos + r.n
           /\ ods' = IF r.err = nil THEN o ELSE ods
           /\ data' = <<>>
           /\ IF e # nil
              THEN UNCHANGED dataLen /\ returnBody(odsPrefix, NoValue, e)
              ELSE /\ dataLen' = dl
                   /\ IF dl = 0
                      THEN returnBody(odsPrefix, object(o, <<>>), nil)
                      ELSE pc' = "odsRead" /\ UNCHANGED << ret, err >>
    /\ UNCHANGED << stream, calls, start, h, s, i, pcsLocals, wdsLocals, pdsLocals >>

\* reader.go:187-193: one turn of the payload loop, one Read of the source.
odsRead ==
    /\ pc = "odsRead"
    /\ \E rd \in Read(stream, pos, dataLen - Len(data)) :
          /\ pos' = pos + rd.n
          /\ IF rd.err # nil
             THEN UNCHANGED data /\ returnBody(odsPrefix, NoValue, rd.err)
             ELSE /\ data' = data \o rd.bytes
                  /\ IF Len(data) + rd.n < dataLen
                     THEN UNCHANGED << pc, ret, err >>
                     ELSE returnBody(odsPrefix, object(ods, data \o rd.bytes), nil)
    /\ UNCHANGED << stream, calls, start, h, s, i, ods, dataLen,
                    pcsLocals, wdsLocals, pdsLocals >>

Next ==
    \/ ReadSegment
    \/ readPresentationComposition
    \/ pcsObject
    \/ readWindows
    \/ wdsWindow
    \/ readPalette
    \/ pdsEntry
    \/ readObject
    \/ odsRead

Spec == Init /\ [][Next]_vars

(***************************************************************************)
(* What the claims speak of, read off the stream itself: the bytes of the  *)
(* segment at which the current call began, and the outcome of the call.   *)
(***************************************************************************)
Done == pc = "return"
Returned == Done /\ err = nil /\ ~ret.nil
Failed == Done /\ err # nil /\ ret.nil

consumed == pos - start
avail == Len(stream) - start

\* The k-th byte of the segment (from 1), and the 16-bit word at k.
B(k) == stream[start + k]
W(k) == B(k) * 256 + B(k + 1)

bodyAt == headerSize
rawMagic == W(1)
rawType == B(11)
declaredSize == W(12)

HeaderValid ==
    /\ avail >= headerSize
    /\ rawMagic = magicNumber
    /\ rawType \in {pcsType, wdsType, pdsType, odsType, endType}

\* The error kinds, by the messages of the chain.
rootOf(e) == e[Len(e)]
IsEndOfStream(e) == e = ioEOF
IsMalformedHeader(e) ==
    /\ e # nil
    /\ e[1].fmt \in {"segment header: %w",
                     "magic number not \"PG\" 0x5047: %x",
                     "unrecognized segment type: 0x%x"}
IsUnrecognizedValue(e) ==
    /\ Len(e) = 2
    /\ e[2].fmt \in {"unrecognized composition state: 0x%x",
                     "unrecognized palette update flag: 0x%x",
                     "composition object %d/%d: unrecognized flag: 0x%x",
                     "unrecognized flag: 0x%x"}
IsSizeMismatch(e) ==
    /\ Len(e) = 2
    /\ e[2].fmt \in {"read %d bytes, %d bytes declared in header",
                     "segment size %d indicates %d windows, but %d specified"}
IsInvalidSize(e) ==
    Len(e) = 2 /\ e[2].fmt = "invalid segment size of %d bytes in header"
IsInvalidLength(e) ==
    Len(e) = 2 /\ e[2].fmt = "data length excludes width and height"
IsDuplicateID(e) ==
    Len(e) = 2 /\ e[2].fmt = "palette entry %d/%d: ID %d reused"
IsTruncatedPayload(e) ==
    /\ Len(e) = 2
    /\ e[1].fmt = odsPrefix
    /\ e[2] \in {ioEOF[1], ioErrUnexpectedEOF[1]}

\* A call returns a segment and no error, or no segment and an error.
ReturnsOneOfTwo == Done => (Returned \/ Failed)

(***************************************************************************)
(* C1.  ReadSegment returns the bare io.EOF exactly when the source was    *)
(* exhausted before any header byte; a source that ends after at least one *)
(* header byte, or inside the body the header declares (also at its very   *)
(* start, when the declared size is not 0), gives an error other than      *)
(* io.EOF and no Segment.                                                  *)
(***************************************************************************)
C1_EndOfStreamIffExhausted == Done => (IsEndOfStream(err) <=> avail = 0)

C1_MidHeader ==
    (Done /\ 0 < avail /\ avail < headerSize)
        => (Failed /\ ~IsEndOfStream(err))

C1_MidBody ==
    (Done /\ avail >= headerSize /\ avail < headerSize + declaredSize)
        => (Failed /\ ~IsEndOfStream(err))

C1_EndOfStream == C1_EndOfStreamIffExhausted /\ C1_MidHeader /\ C1_MidBody

(***************************************************************************)
(* C2.  A successful call, of whichever segment kind, has consumed the 13  *)
(* header bytes and exactly the body bytes the header declares.            *)
(***************************************************************************)
C2_ConsumesDeclaredSize ==
    Returned => consumed = headerSize + declaredSize

(***************************************************************************)
(* The composition objects as they lie in the stream after the 11-byte     *)
(* composition header: k records from offset off, each 8 bytes and 8 more  *)
(* when its crop flag is the forced value.  A record the source does not   *)
(* hold whole ends the walk with the flag -1.                              *)
(***************************************************************************)
RECURSIVE pcsRecords(_, _)
pcsRecords(off, k) ==
    IF k = 0 THEN <<>>
    ELSE IF Len(stream) < off + 8 THEN << -1 >>
    ELSE LET f == stream[off + 4]
             n == IF f = croppedForce THEN 16 ELSE 8
         IN  IF Len(stream) < off + n THEN << -1 >>
             ELSE << f >> \o pcsRecords(off + n, k - 1)

PcsCall == Done /\ HeaderValid /\ rawType = pcsType /\ avail >= bodyAt + 11
rawState == B(bodyAt + 8)
rawPuf == B(bodyAt + 9)
rawObjectCount == B(bodyAt + 11)
rawCropFlags == pcsRecords(start + bodyAt + 11, rawObjectCount)
rawStateLegal == rawState \in {Normal, AcquisitionPoint, EpochStart}
rawPufLegal == rawPuf \in {0, pufTrue}
CropFlagLegal(f) == f \in {0, croppedForce}
rawCropped == { j \in 1..Len(rawCropFlags) : rawCropFlags[j] = croppedForce }

PcsWellFormed ==
    /\ PcsCall
    /\ rawStateLegal /\ rawPufLegal
    /\ Len(rawCropFlags) = rawObjectCount
    /\ \A j \in 1..rawObjectCount : CropFlagLegal(rawCropFlags[j])

(***************************************************************************)
(* C3.  A composition segment with legal enumerated fields and readable    *)
(* object records is returned exactly when 11 + 8*objects + 8*cropped      *)
(* objects is the declared body size; it then holds as many objects as     *)
(* declared, with a Crop exactly on those whose flag is the forced value;  *)
(* otherwise the call fails with the size mismatch.                        *)
(***************************************************************************)
C3_CompositionSize ==
    PcsWellFormed =>
        LET computed == 11 + 8 * rawObjectCount + 8 * Cardinality(rawCropped)
        IN  /\ Returned <=> computed = declaredSize
            /\ Returned =>
                 /\ ret.Data.type = "*PresentationComposition"
                 /\ Len(ret.Data.Objects) = rawObjectCount
                 /\ \A j \in 1..rawObjectCount :
                        ~ret.Data.Objects[j].Crop.nil <=> j \in rawCropped
            /\ ~Returned => (Failed /\ IsSizeMismatch(err))

\* One cropped object, declared size 27, returned with its Crop.
C3_Witness ==
    /\ PcsWellFormed /\ Returned
    /\ rawObjectCount = 1 /\ rawCropped = {1} /\ declaredSize = 27
    /\ ~ret.Data.Objects[1].Crop.nil

(***************************************************************************)
(* C4.  In a window segment whose count byte was read, a declared size     *)
(* other than 9*count + 1 fails with the size mismatch with no window      *)
(* record read; with the size 9*count + 1 and the records in the source,   *)
(* exactly count records are read and returned in stream order (none for   *)
(* count 0 and size 1).                                                    *)
(***************************************************************************)
WdsCall == Done /\ HeaderValid /\ rawType = wdsType /\ avail >= bodyAt + 1
rawWindowCount == B(bodyAt + 1)
rawWindow(k) ==
    LET at == bodyAt + 1 + 9 * (k - 1)
    IN  [ID |-> B(at + 1), X |-> W(at + 2), Y |-> W(at + 4),
         Width |-> W(at + 6), Height |-> W(at + 8)]

C4_WindowSize ==
    WdsCall =>
        /\ declaredSize # 9 * rawWindowCount + 1 =>
             /\ Failed /\ IsSizeMismatch(err)
             /\ consumed = headerSize + 1
        /\ (declaredSize = 9 * rawWindowCount + 1
               /\ avail >= bodyAt + 1 + 9 * rawWindowCount) =>
             /\ Returned
             /\ consumed = headerSize + 1 + 9 * rawWindowCount
             /\ ret.Data.type = "[]Window"
             /\ ret.Data.Windows = [k \in 1..rawWindowCount |-> rawWindow(k)]
        /\ Returned => declaredSize = 9 * rawWindowCount + 1

\* Two windows, returned in stream order.
C4_Witness ==
    /\ WdsCall /\ Returned
    /\ rawWindowCount = 2 /\ declaredSize = 19
    /\ ret.Data.Windows[1].ID = 1 /\ ret.Data.Windows[2].ID = 2

(***************************************************************************)
(* C5.  In a palette segment a declared size that is not 2 modulo 5 fails  *)
(* with the invalid size before any body byte is read; a palette that is   *)
(* returned holds (size - 2) / 5 entries, in stream order.                 *)
(***************************************************************************)
PdsCall == Done /\ HeaderValid /\ rawType = pdsType
rawEntry(k) ==
    LET at == bodyAt + 2 + 5 * (k - 1)
    IN  [ID |-> B(at + 1), Y |-> B(at + 2), Cr |-> B(at + 3),
         Cb |-> B(at + 4), Alpha |-> B(at + 5)]
rawEntryCount == (declaredSize - 2) \div 5

C5_PaletteSize ==
    PdsCall =>
        /\ declaredSize % 5 # 2 =>
             /\ Failed /\ IsInvalidSize(err)
             /\ consumed = headerSize
        /\ Returned =>
             /\ declaredSize % 5 = 2
             /\ ret.Data.type = "*Palette"
             /\ ret.Data.Entries = [k \in 1..rawEntryCount |-> rawEntry(k)]

\* Size 7: one entry.
C5_Witness ==
    /\ PdsCall /\ Returned
    /\ declaredSize = 7 /\ Len(ret.Data.Entries) = 1

(***************************************************************************)
(* C6.  A palette that is returned has pairwise distinct entry IDs.  The   *)
(* first entry whose ID repeats an earlier ID of the same segment fails    *)
(* the call with the duplicate-ID error at that entry, no later entry      *)
(* read; a palette whose IDs are distinct and whose entries the source     *)
(* holds is returned, whatever IDs earlier segments held.                  *)
(***************************************************************************)
rawID(k) == B(bodyAt + 2 + 5 * (k - 1) + 1)
Repeats(k) == \E j \in 1..(k - 1) : rawID(j) = rawID(k)
\* The entries the source holds whole, among the declared ones.
rawEntriesHeld == Min(rawEntryCount, (avail - bodyAt - 2) \div 5)

C6_PaletteIDs ==
    (PdsCall /\ declaredSize % 5 = 2 /\ avail >= bodyAt + 2) =>
        /\ Returned =>
             \A j, k \in 1..Len(ret.Data.Entries) :
                 j # k => ret.Data.Entries[j].ID # ret.Data.Entries[k].ID
        /\ \A k \in 1..rawEntriesHeld :
               (Repeats(k) /\ \A j \in 1..(k - 1) : ~Repeats(j)) =>
                   /\ Failed /\ IsDuplicateID(err)
                   /\ rootOf(err).args = << k - 1, rawEntryCount, rawID(k) >>
                   /\ consumed = headerSize + 2 + 5 * k
        /\ (rawEntriesHeld = rawEntryCount
               /\ \A k \in 1..rawEntryCount : ~Repeats(k)) => Returned

\* Three entries, the second repeating the first: the third is not read.
C6_Witness ==
    /\ PdsCall /\ Failed /\ IsDuplicateID(err)
    /\ declaredSize = 17 /\ avail >= bodyAt + 17
    /\ rawID(1) = rawID(2)
    /\ consumed = headerSize + 12

\* A second palette repeating an ID of the palette before it is returned.
C6_AcrossSegments ==
    /\ PdsCall /\ Returned /\ calls = 2
    /\ stream[11] = pdsType /\ stream[16] = 5
    /\ Len(ret.Data.Entries) = 1 /\ ret.Data.Entries[1].ID = 5

(***************************************************************************)
(* C7.  In an object segment with legal sequence flags a total data length *)
(* below 4 fails with the invalid length, no payload byte read; with a     *)
(* length L >= 4 an object that is returned has a payload of L - 4 bytes.  *)
(***************************************************************************)
OdsCall == Done /\ HeaderValid /\ rawType = odsType /\ avail >= bodyAt + 11
rawSequenceFlag == B(bodyAt + 4)
rawDataLength == B(bodyAt + 5) * 65536 + W(bodyAt + 6)
rawSequenceFlagLegal ==
    rawSequenceFlag \in {0, firstInSequence, lastInSequence,
                         firstInSequence + lastInSequence}

C7_ObjectLength ==
    (OdsCall /\ rawSequenceFlagLegal) =>
        /\ rawDataLength < 4 =>
             /\ Failed /\ IsInvalidLength(err)
             /\ consumed = headerSize + 11
        /\ rawDataLength >= 4 =>
             /\ ~IsInvalidLength(err)
             /\ Returned =>
                  /\ ret.Data.type = "*Object"
                  /\ Len(ret.Data.ObjectData) = rawDataLength - 4

\* Length 4: returned with an empty payload.
C7_Witness ==
    /\ OdsCall /\ rawSequenceFlagLegal /\ Returned
    /\ rawDataLength = 4 /\ ret.Data.ObjectData = <<>>

(***************************************************************************)
(* C8.  A whole header whose magic is not 0x5047, or whose type tag is     *)
(* none of the five, fails the call with the malformed-header error and no *)
(* Segment, 13 bytes consumed, whatever else the header and the bytes      *)
(* after it hold.                                                          *)
(***************************************************************************)
C8_MalformedHeader ==
    (Done /\ avail >= headerSize
          /\ (rawMagic # magicNumber
              \/ rawType \notin {pcsType, wdsType, pdsType, odsType, endType})) =>
        /\ Failed /\ IsMalformedHeader(err)
        /\ consumed = headerSize

\* A wrong magic before a known type tag and a valid body.
C8_Witness ==
    /\ Done /\ avail > headerSize
    /\ rawMagic # magicNumber /\ rawType = pdsType
    /\ Failed /\ IsMalformedHeader(err) /\ consumed = headerSize

(***************************************************************************)
(* C9.  No Segment is returned when an enumerated field is illegal: a      *)
(* composition state outside the three, a palette-update byte with a bit   *)
(* other than the true bit, a crop-flag byte with a bit other than the     *)
(* forced value, an object's sequence flags with a bit other than first    *)
(* and last each fail with the unrecognized-value error of that field,     *)
(* in a composition whatever the declared body size is.                    *)
(***************************************************************************)
FirstIllegalCrop(j) ==
    /\ rawCropFlags[j] # -1 /\ ~CropFlagLegal(rawCropFlags[j])
    /\ \A k \in 1..(j - 1) : CropFlagLegal(rawCropFlags[k])

C9_EnumeratedFields ==
    /\ (PcsCall /\ ~rawStateLegal) =>
          /\ Failed /\ IsUnrecognizedValue(err)
          /\ rootOf(err) = [fmt  |-> "unrecognized composition state: 0x%x",
                            args |-> << rawState >>]
    /\ (PcsCall /\ rawStateLegal /\ ~rawPufLegal) =>
          /\ Failed /\ IsUnrecognizedValue(err)
          /\ rootOf(err) = [fmt  |-> "unrecognized palette update flag: 0x%x",
                            args |-> << rawPuf >>]
    /\ (PcsCall /\ rawStateLegal /\ rawPufLegal) =>
          \A j \in 1..Len(rawCropFlags) :
              FirstIllegalCrop(j) =>
                  /\ Failed /\ IsUnrecognizedValue(err)
                  /\ rootOf(err) =
                       [fmt  |-> "composition object %d/%d: unrecognized flag: 0x%x",
                        args |-> << j, rawObjectCount, rawCropFlags[j] >>]
    /\ (OdsCall /\ ~rawSequenceFlagLegal) =>
          /\ Failed /\ IsUnrecognizedValue(err)
          /\ rootOf(err) = [fmt |-> "unrecognized flag: 0x%x",
                            args |-> << rawSequenceFlag >>]
    /\ (Returned /\ rawType = pcsType) => PcsWellFormed
    /\ (Returned /\ rawType = odsType) => rawSequenceFlagLegal

\* An illegal crop flag on the second object, under a declared size that
\* fits no object list.
C9_Witness ==
    /\ PcsCall /\ rawStateLegal /\ rawPufLegal
    /\ rawObjectCount = 2 /\ Len(rawCropFlags) = 2
    /\ FirstIllegalCrop(2)
    /\ declaredSize = 11
    /\ Failed /\ IsUnrecognizedValue(err)

(***************************************************************************)
(* C10.  The payload loop of readObject, over a source that may give fewer *)
(* bytes than asked for: when the source holds the payload's bytes, the    *)
(* object is returned with exactly those bytes, in order, and no byte      *)
(* beyond them read; when the source ends before them, the call fails      *)
(* with the source's error and no shorter payload is returned.             *)
(***************************************************************************)
OdsPayloadCall == OdsCall /\ rawSequenceFlagLegal /\ rawDataLength > 4
rawPayloadLen == rawDataLength - 4
rawPayloadHeld == avail - bodyAt - 11

C10_PayloadTruncated ==
    (OdsPayloadCall /\ rawPayloadHeld < rawPayloadLen) =>
        (Failed /\ IsTruncatedPayload(err))

C10_PayloadDelivered ==
    (OdsPayloadCall /\ rawPayloadHeld >= rawPayloadLen) =>
        /\ Returned
        /\ ret.Data.ObjectData = Slice(stream, start + bodyAt + 11, rawPayloadLen)
        /\ consumed = headerSize + 11 + rawPayloadLen

C10_PayloadLoop == C10_PayloadTruncated /\ C10_PayloadDelivered

====
